---- MODULE Spec2Model ----
(***************************************************************************)
(* Model of gsql's Cache[T] (src/sql.go): a single-slot lazy cache guarded *)
(* by a sync.RWMutex, used by several goroutines at once.                  *)
(*                                                                         *)
(* Each goroutine repeatedly calls Get, Refresh or Invalidate.  A call is  *)
(* split into steps at the points where other goroutines can interleave:   *)
(* where it waits for the lock and where the factory runs.  The code       *)
(* between two such points reads and writes ct.valid and ct.data only      *)
(* while it holds the lock, so it is one step.                             *)
(*                                                                         *)
(* sync.RWMutex is modelled by its contract: RLock waits while a writer    *)
(* holds the lock, Lock waits while a writer or any reader holds it.  (Go  *)
(* also holds new readers back while a writer waits; every schedule of     *)
(* Go's lock is a schedule of this one.)                                   *)
(*                                                                         *)
(* The factory reads an external data source that may change at any time:  *)
(* every invocation returns a value of its own (named by the number of     *)
(* the invocation), or an error.                                           *)
(*                                                                         *)
(* The second part models List and the Iterator[T] over a *sqlx.Rows       *)
(* (IterSpec): the database answers one query with an error or with rows,  *)
(* some of which may fail to scan, and the program calls List, Iterate and *)
(* the methods of the Iterator in any order.  sqlx.Rows follows the        *)
(* contract of database/sql.  The cache and the iterator share no state.   *)
(***************************************************************************)
EXTENDS Integers, FiniteSets, Sequences, TLC

\* ---- bounds ----
\* goroutines sharing one Cache
NumThreads == 2
\* calls of Get/Refresh/Invalidate started in one behaviour
MaxOps == 3
\* rows in the answer to a query
MaxRows == 3
\* distinct values a row can scan to
NumVals == 2

Threads == 1..NumThreads

VARIABLES
    valid,      \* ct.valid
    data,       \* ct.data: n stands for the value that factory invocation n produced
    lock,       \* ct.lock: [writer, readers]
    pc,         \* per goroutine: position inside its current call
    op,         \* per goroutine: the call it is in (or was last in)
    ret,        \* per goroutine: what its last call returned
    calls,      \* number of factory invocations started so far
    started,    \* number of calls started so far
    prev,       \* the call that returned most recently: [out, by]
    lastInv,    \* value of `calls` when the latest Invalidate took effect
    anyInvRef,  \* some Invalidate or Refresh call has been started
    failed,     \* the factory invocations that returned an error
    count,      \* calls started so far, by kind, and invocations made by Refresh
    hist,       \* per goroutine: observations about its current call
    query,      \* what the database answers to the query given to Iterate and List
    iter,       \* the Iterator: [made, err, hasRows]
    cursor,     \* the sqlx.Rows behind it.rows: [pos, closed, err, released]
    out,        \* the latest call of List or of a method of the Iterator, and its result
    scanFailed  \* some Get of this Iterator has returned a scan error

cacheVars == <<valid, data, lock, pc, op, ret, calls, started, prev, lastInv,
               anyInvRef, failed, count, hist>>

iterVars == <<query, iter, cursor, out, scanFailed>>

vars == <<cacheVars, iterVars>>

\* The zero value of T, held by ct.data of a new cache.
Zero == 0

\* The nil error.  A non-nil error is the number of the invocation that returned it.
NoErr == 0

\* No call has returned yet.
NoPrev == [out |-> "none", by |-> 0]

NotReturned == [done |-> FALSE, data |-> Zero, err |-> NoErr]

Returned(d, e) == [done |-> TRUE, data |-> d, err |-> e]

\* What a call knows when it starts.
NewHist == [startValid  |-> valid,     \* ct.valid when the call started
            startData   |-> data,      \* ct.data when the call started
            undisturbed |-> TRUE,      \* no other call changed the cache since
            prev        |-> prev,      \* outcome of the latest call returned before
            floor       |-> lastInv,   \* invocations started before the latest Invalidate
            blockedFail |-> NoErr,     \* failed fill this call waited behind at Lock
            invoked     |-> {},        \* factory invocations made by this call
            seen        |-> IF valid THEN {data} ELSE {}]
                                       \* values stored, with valid set, during the call

\* ---- sync.RWMutex ----
NoLock == [writer |-> 0, readers |-> {}]

CanRLock_Always(l) == TRUE

CanRLock(l) == l.writer = 0

CanLock_IgnoreWriter(l) == l.readers = {}

CanLock(l) == l.writer = 0 /\ l.readers = {}

RLock(l, t) == [l EXCEPT !.readers = @ \cup {t}]

RUnlock(l, t) == [l EXCEPT !.readers = @ \ {t}]

Lock(l, t) == [l EXCEPT !.writer = t]

\* An exit path that forgets to unlock.
Unlock_Keep(l, t) == l

Unlock(l, t) == [l EXCEPT !.writer = 0]

\* ---- the factory ----
\* Goroutines whose call is inside ct.factory(ctx).
InFactory == {t \in Threads : pc[t] \in {"get_factory", "ref_factory"}}

\* Result of invocation number n: the value it read from the source, or an error.
Factory(n, ok) ==
    IF ok THEN [value |-> n, err |-> NoErr]
          ELSE [value |-> Zero, err |-> n]

TypeOK ==
    /\ valid \in BOOLEAN
    /\ data \in 0..MaxOps
    /\ lock \in [writer : 0..NumThreads, readers : SUBSET Threads]
    /\ calls \in 0..MaxOps
    /\ started \in 0..MaxOps

\* ---- the query answered by the database, and the Iterator over it ----
\* A row that cannot be scanned into T; the other rows scan to a value in 1..NumVals.
Unscannable == 0

RowSet == {Unscannable} \cup (1..NumVals)

SeqsUpTo(S, n) == UNION {[1..k -> S] : k \in 0..n}

\* The database rejects the query (QueryxContext returns an error and no rows).
NoQuery == [fail |-> TRUE, rows |-> <<>>, fault |-> FALSE]

\* The answers of the database: the query is rejected, or it yields rows, after the
\* last of which the cursor ends normally or breaks (fault).
Queries ==
    {NoQuery} \cup
    {[fail |-> FALSE, rows |-> r, fault |-> f] : r \in SeqsUpTo(RowSet, MaxRows), f \in BOOLEAN}

\* A Go slice: nil, or a sequence of items.
NilSeq == [nil |-> TRUE, items |-> <<>>]

\* make([]T, 0)
EmptySeq == [nil |-> FALSE, items |-> <<>>]

\* append(s, v)
AppendTo(s, v) == [nil |-> FALSE, items |-> Append(s.items, v)]

\* No Iterator has been created.
NoIter == [made |-> FALSE, err |-> "nil", hasRows |-> FALSE]

\* A cursor as the database hands it out: before the first row, open.
NoCursor == [pos |-> 0, closed |-> FALSE, err |-> "nil", released |-> 0]

\* Nothing has been called.
NoOut == [op |-> "none", ok |-> FALSE, seq |-> NilSeq, val |-> Zero, err |-> "nil",
          panic |-> FALSE, touched |-> FALSE, before |-> NoCursor,
          exec |-> FALSE, bindFailed |-> FALSE]

\* The program does not use an Iterator.
NoIterator ==
    /\ query = NoQuery
    /\ iter = NoIter
    /\ cursor = NoCursor
    /\ out = NoOut
    /\ scanFailed = FALSE

\* NewCache: no value, not valid, lock free, factory not yet invoked.
NewCache ==
    /\ valid = FALSE
    /\ data = Zero
    /\ lock = NoLock
    /\ pc = [t \in Threads |-> "idle"]
    /\ op = [t \in Threads |-> "none"]
    /\ ret = [t \in Threads |-> NotReturned]
    /\ calls = 0
    /\ started = 0
    /\ prev = NoPrev
    /\ lastInv = 0
    /\ anyInvRef = FALSE
    /\ failed = {}
    /\ count = [Get |-> 0, Refresh |-> 0, Invalidate |-> 0, byRefresh |-> 0]
    /\ hist = [t \in Threads |-> [startValid |-> FALSE, startData |-> Zero,
                                  undisturbed |-> TRUE, prev |-> NoPrev, floor |-> 0,
                                  blockedFail |-> NoErr, invoked |-> {},
                                  seen |-> {}]]

\* A constructor that fills the cache at once.
Init_Eager ==
    /\ valid = TRUE
    /\ data = 1
    /\ lock = NoLock
    /\ pc = [t \in Threads |-> "idle"]
    /\ op = [t \in Threads |-> "none"]
    /\ ret = [t \in Threads |-> NotReturned]
    /\ calls = 1
    /\ started = 0
    /\ prev = NoPrev
    /\ lastInv = 0
    /\ anyInvRef = FALSE
    /\ failed = {}
    /\ count = [Get |-> 0, Refresh |-> 0, Invalidate |-> 0, byRefresh |-> 0]
    /\ hist = [t \in Threads |-> [startValid |-> FALSE, startData |-> Zero,
                                  undisturbed |-> TRUE, prev |-> NoPrev, floor |-> 0,
                                  blockedFail |-> NoErr, invoked |-> {},
                                  seen |-> {}]]
    /\ NoIterator

Init == NewCache /\ NoIterator

\* ---- bookkeeping of the observations ----
\* The cache as a pair, for the operators below.
Cur == [valid |-> valid, data |-> data]

\* Goroutine t changed the cache (a fill or an Invalidate): every other call is disturbed.
HistChange(h, t) ==
    [u \in Threads |-> IF u = t THEN h[u] ELSE [h[u] EXCEPT !.undisturbed = FALSE]]

\* The cache became c: the calls in progress have seen its value, if it is valid.
HistSee(h, c) ==
    [u \in Threads |-> IF pc[u] # "idle" /\ c.valid
                       THEN [h[u] EXCEPT !.seen = @ \cup {c.data}] ELSE h[u]]

\* A fill by Get failed with error e: the Get calls waiting at Lock waited behind it.
HistFail(h, t, e) ==
    [u \in Threads |-> IF u # t /\ pc[u] = "get_lock"
                       THEN [h[u] EXCEPT !.blockedFail = e] ELSE h[u]]

\* Goroutine t starts a call of o at position entry.
Begin(t, o, entry) ==
    /\ pc[t] = "idle"
    /\ started < MaxOps
    /\ started' = started + 1
    /\ pc' = [pc EXCEPT ![t] = entry]
    /\ op' = [op EXCEPT ![t] = o]
    /\ ret' = [ret EXCEPT ![t] = NotReturned]
    /\ hist' = [hist EXCEPT ![t] = NewHist]
    /\ anyInvRef' = (anyInvRef \/ o \in {"Refresh", "Invalidate"})
    /\ count' = [count EXCEPT ![o] = @ + 1]
    /\ UNCHANGED iterVars
    /\ UNCHANGED <<valid, data, lock, calls, prev, lastInv, failed>>

\* Goroutine t returns (d, e); outcome is recorded as the latest return.
Return(t, d, e, outcome) ==
    /\ pc' = [pc EXCEPT ![t] = "idle"]
    /\ ret' = [ret EXCEPT ![t] = Returned(d, e)]
    /\ prev' = [out |-> outcome, by |-> t]

\* ---- Cache.Get ----
\* A fast path that trusts the snapshot whatever the flag says.
GetFastHit_Always(v) == TRUE

GetFastHit(v) == v

GetSlowHit_Never(v) == FALSE

GetSlowHit(v) == v

GetOnError_Validate(c) == [c EXCEPT !.valid = TRUE]

GetOnError_Clear(c) == [c EXCEPT !.data = Zero]

GetOnError(c) == c

\* A wrapped error is another error than the one the factory returned.
GetError_Wrapped(e) == -e

\* return ct.data, err: the error of the factory as it is
GetError(e) == e

GetStore_NoValid(c, value) == [valid |-> c.valid, data |-> value]

GetStore(c, value) == [valid |-> TRUE, data |-> value]

BeginGet(t) == Begin(t, "Get", "get_rlock")

\* ct.lock.RLock()
GetRLock(t) ==
    /\ pc[t] = "get_rlock"
    /\ CanRLock(lock)
    /\ lock' = RLock(lock, t)
    /\ pc' = [pc EXCEPT ![t] = "get_snap"]
    /\ UNCHANGED iterVars
    /\ UNCHANGED <<valid, data, op, ret, calls, started, prev, lastInv,
                   anyInvRef, failed, count, hist>>

\* valid := ct.valid; data := ct.data; RUnlock; if valid { return data, nil }
GetSnapshot(t) ==
    /\ pc[t] = "get_snap"
    /\ lock' = RUnlock(lock, t)
    /\ IF GetFastHit(valid)
       THEN Return(t, data, NoErr, "GetOk")
       ELSE /\ pc' = [pc EXCEPT ![t] = "get_lock"]
            /\ UNCHANGED <<ret, prev>>
    /\ UNCHANGED iterVars
    /\ UNCHANGED <<valid, data, op, calls, started, lastInv, anyInvRef,
                   failed, count, hist>>

\* ct.lock.Lock(); if ct.valid { return ct.data, nil } (deferred Unlock);
\* else ct.factory(ctx) starts
GetLock(t) ==
    /\ pc[t] = "get_lock"
    /\ CanLock(lock)
    /\ IF GetSlowHit(valid)
       THEN /\ Return(t, data, NoErr, "GetOk")
            /\ lock' = Unlock(Lock(lock, t), t)
            /\ UNCHANGED <<calls, hist>>
       ELSE /\ pc' = [pc EXCEPT ![t] = "get_factory"]
            /\ lock' = Lock(lock, t)
            /\ calls' = calls + 1
            /\ hist' = [hist EXCEPT ![t].invoked = @ \cup {calls + 1}]
            /\ UNCHANGED <<ret, prev>>
    /\ UNCHANGED iterVars
    /\ UNCHANGED <<valid, data, op, started, lastInv, anyInvRef, failed, count>>

\* ct.factory(ctx) returns; on error return ct.data, err; else store and return
GetFactoryReturn(t) ==
    /\ pc[t] = "get_factory"
    /\ \E ok \in BOOLEAN :
         LET r == Factory(calls, ok)
             c == IF r.err # NoErr THEN GetOnError(Cur) ELSE GetStore(Cur, r.value)
         IN /\ valid' = c.valid
            /\ data' = c.data
            /\ IF r.err # NoErr
               THEN /\ Return(t, data, GetError(r.err), "GetErr")
                    /\ hist' = HistFail(hist, t, r.err)
                    /\ failed' = failed \cup {r.err}
               ELSE /\ Return(t, c.data, NoErr, "GetOk")
                    /\ hist' = HistSee(HistChange(hist, t), c)
                    /\ UNCHANGED failed
    /\ lock' = Unlock(lock, t)
    /\ UNCHANGED iterVars
    /\ UNCHANGED <<op, calls, started, lastInv, anyInvRef, count>>

\* ---- Cache.Refresh ----
RefreshOnError_Invalidate(c) == [c EXCEPT !.valid = FALSE]

RefreshOnError_StoreZero(c) == [c EXCEPT !.data = Zero]

RefreshOnError(c) == c

\* return err: the error of the factory as it is
RefreshError(e) == e

RefreshStore_KeepData(c, value) == [valid |-> TRUE, data |-> c.data]

RefreshStore(c, value) == [valid |-> TRUE, data |-> value]

BeginRefresh(t) == Begin(t, "Refresh", "ref_lock")

\* A Refresh that, like Get, is content with a filled cache.
RefreshLock_Coalesce(t) ==
    /\ pc[t] = "ref_lock"
    /\ CanLock(lock)
    /\ IF valid
       THEN /\ Return(t, Zero, NoErr, "RefreshOk")
            /\ lock' = Unlock(Lock(lock, t), t)
            /\ UNCHANGED <<calls, hist, count>>
       ELSE /\ lock' = Lock(lock, t)
            /\ pc' = [pc EXCEPT ![t] = "ref_factory"]
            /\ calls' = calls + 1
            /\ hist' = [hist EXCEPT ![t].invoked = @ \cup {calls + 1}]
            /\ count' = [count EXCEPT !.byRefresh = @ + 1]
            /\ UNCHANGED <<ret, prev>>
    /\ UNCHANGED iterVars
    /\ UNCHANGED <<valid, data, op, started, lastInv, anyInvRef, failed>>

\* ct.lock.Lock(); ct.factory(ctx) starts, whatever ct.valid is
RefreshLock(t) ==
    /\ pc[t] = "ref_lock"
    /\ CanLock(lock)
    /\ lock' = Lock(lock, t)
    /\ pc' = [pc EXCEPT ![t] = "ref_factory"]
    /\ calls' = calls + 1
    /\ hist' = [hist EXCEPT ![t].invoked = @ \cup {calls + 1}]
    /\ count' = [count EXCEPT !.byRefresh = @ + 1]
    /\ UNCHANGED iterVars
    /\ UNCHANGED <<valid, data, op, ret, started, prev, lastInv, anyInvRef, failed>>

\* ct.factory(ctx) returns; on error return err; else store and return nil
RefreshFactoryReturn(t) ==
    /\ pc[t] = "ref_factory"
    /\ \E ok \in BOOLEAN :
         LET r == Factory(calls, ok)
             c == IF r.err # NoErr THEN RefreshOnError(Cur) ELSE RefreshStore(Cur, r.value)
         IN /\ valid' = c.valid
            /\ data' = c.data
            /\ IF r.err # NoErr
               THEN /\ Return(t, Zero, RefreshError(r.err), "RefreshErr")
                    /\ failed' = failed \cup {r.err}
                    /\ UNCHANGED hist
               ELSE /\ Return(t, Zero, NoErr, "RefreshOk")
                    /\ hist' = HistSee(HistChange(hist, t), c)
                    /\ UNCHANGED failed
    /\ lock' = Unlock(lock, t)
    /\ UNCHANGED iterVars
    /\ UNCHANGED <<op, calls, started, lastInv, anyInvRef, count>>

\* ---- Cache.Invalidate ----
InvalidateStore_Noop(c) == c

InvalidateStore_ClearData(c) == [valid |-> FALSE, data |-> Zero]

InvalidateStore(c) == [c EXCEPT !.valid = FALSE]

BeginInvalidate(t) == Begin(t, "Invalidate", "inv_lock")

\* ct.lock.Lock(); ct.valid = false; (deferred) ct.lock.Unlock()
Invalidate(t) ==
    /\ pc[t] = "inv_lock"
    /\ CanLock(lock)
    /\ valid' = InvalidateStore(Cur).valid
    /\ data' = InvalidateStore(Cur).data
    /\ lock' = Unlock(Lock(lock, t), t)
    /\ Return(t, Zero, NoErr, "Invalidate")
    /\ lastInv' = calls
    /\ hist' = HistSee(HistChange(hist, t), InvalidateStore(Cur))
    /\ UNCHANGED iterVars
    /\ UNCHANGED <<op, calls, started, anyInvRef, failed, count>>

Next ==
    \/ \E t \in Threads : BeginGet(t)
    \/ \E t \in Threads : GetRLock(t)
    \/ \E t \in Threads : GetSnapshot(t)
    \/ \E t \in Threads : GetLock(t)
    \/ \E t \in Threads : GetFactoryReturn(t)
    \/ \E t \in Threads : BeginRefresh(t)
    \/ \E t \in Threads : RefreshLock(t)
    \/ \E t \in Threads : RefreshFactoryReturn(t)
    \/ \E t \in Threads : BeginInvalidate(t)
    \/ \E t \in Threads : Invalidate(t)

Spec == Init /\ [][Next]_vars

\* A step of the call goroutine t is in.
Progress(t) ==
    \/ GetRLock(t)
    \/ GetSnapshot(t)
    \/ GetLock(t)
    \/ GetFactoryReturn(t)
    \/ RefreshLock(t)
    \/ RefreshFactoryReturn(t)
    \/ Invalidate(t)

\* The scheduler runs every goroutine that can run, every factory invocation
\* terminates, and the lock is handed to every goroutine that keeps asking for it.
FairSpec == Spec /\ \A t \in Threads : SF_vars(Progress(t))

\* ---- sqlx.Rows, by the contract of database/sql ----
\* rows.Next(): steps to the next row; at the end, or when the cursor breaks, it
\* closes the cursor by itself and reports false.
RowsNext(q, c) ==
    IF c.closed THEN [cursor |-> c, ok |-> FALSE]
    ELSE IF c.pos < Len(q.rows)
         THEN [cursor |-> [c EXCEPT !.pos = @ + 1], ok |-> TRUE]
         ELSE [cursor |-> [c EXCEPT !.closed = TRUE, !.released = @ + 1,
                                    !.err = IF q.fault THEN "fault" ELSE "nil"],
               ok |-> FALSE]

\* rows.Err()
RowsErr(c) == c.err

\* rows.Close(): releases an open cursor; closing again does nothing.
RowsClose(c) ==
    IF c.closed THEN c ELSE [c EXCEPT !.closed = TRUE, !.released = @ + 1]

\* rows.StructScan(&result): scans the row the cursor stands on.
RowsStructScan(q, c) ==
    IF c.closed THEN [val |-> Zero, err |-> "closed"]
    ELSE IF c.pos = 0 THEN [val |-> Zero, err |-> "norow"]
    ELSE IF q.rows[c.pos] = Unscannable THEN [val |-> Zero, err |-> "scan"]
    ELSE [val |-> q.rows[c.pos], err |-> "nil"]

\* ---- Iterator ----
\* A Next that asks the cursor whatever it.err is.
ItNext_IgnoreErr(i, q, c) ==
    IF ~i.hasRows
    THEN [cursor |-> c, ok |-> FALSE, touched |-> TRUE, panic |-> TRUE]
    ELSE [cursor |-> RowsNext(q, c).cursor, ok |-> RowsNext(q, c).ok,
          touched |-> TRUE, panic |-> FALSE]

\* if it.err != nil { return false }; return it.rows.Next()
ItNext(i, q, c) ==
    IF i.err # "nil"
    THEN [cursor |-> c, ok |-> FALSE, touched |-> FALSE, panic |-> FALSE]
    ELSE IF ~i.hasRows
         THEN [cursor |-> c, ok |-> FALSE, touched |-> TRUE, panic |-> TRUE]
         ELSE [cursor |-> RowsNext(q, c).cursor, ok |-> RowsNext(q, c).ok,
               touched |-> TRUE, panic |-> FALSE]

\* if it.err != nil { return it.err }; return it.rows.Err()
ItErr(i, c) == IF i.err # "nil" THEN i.err ELSE RowsErr(c)

\* return it.rows.Close(): it.rows is dereferenced, nil or not
ItClose(i, c) ==
    IF ~i.hasRows THEN [cursor |-> c, panic |-> TRUE]
    ELSE [cursor |-> RowsClose(c), panic |-> FALSE]

\* if err := it.rows.Err(); err != nil { return result, err };
\* err := it.rows.StructScan(&result); return result, err
ItGet(i, q, c) ==
    IF ~i.hasRows THEN [val |-> Zero, err |-> "nil", panic |-> TRUE]
    ELSE IF RowsErr(c) # "nil" THEN [val |-> Zero, err |-> RowsErr(c), panic |-> FALSE]
    ELSE [val |-> RowsStructScan(q, c).val, err |-> RowsStructScan(q, c).err,
          panic |-> FALSE]

\* var result []T
CollectStart == NilSeq

\* A Collect that hands out what it has collected so far.
CollectOnError_Partial(acc) == acc

\* return nil, err
CollectOnError(acc) == NilSeq

CollectAppend_Front(acc, v) == [nil |-> FALSE, items |-> <<v>> \o acc.items]

\* result = append(result, r)
CollectAppend(acc, v) == AppendTo(acc, v)

\* A Collect that leaves the cursor to the caller.
CollectDeferred_None(i, c) == [cursor |-> c, panic |-> FALSE]

\* defer it.Close()
CollectDeferred(i, c) == ItClose(i, c)

\* for it.Next() { r, err := it.Get(); ... }; return result, it.Err()
RECURSIVE CollectLoop(_, _, _, _)
CollectLoop(i, q, c, acc) ==
    LET n == ItNext(i, q, c)
    IN IF n.panic THEN [cursor |-> c, seq |-> acc, err |-> "nil", scan |-> FALSE, panic |-> TRUE]
       ELSE IF ~n.ok
       THEN [cursor |-> n.cursor, seq |-> acc, err |-> ItErr(i, n.cursor),
             scan |-> FALSE, panic |-> FALSE]
       ELSE LET g == ItGet(i, q, n.cursor)
            IN IF g.err # "nil"
               THEN [cursor |-> n.cursor, seq |-> CollectOnError(acc), err |-> g.err,
                     scan |-> g.err = "scan", panic |-> FALSE]
               ELSE CollectLoop(i, q, n.cursor, CollectAppend(acc, g.val))

\* Collect: the loop, then the deferred Close.
ItCollect(i, q, c) ==
    LET r == CollectLoop(i, q, c, CollectStart)
        d == CollectDeferred(i, r.cursor)
    IN [cursor |-> d.cursor, seq |-> r.seq, err |-> r.err, scan |-> r.scan,
        panic |-> r.panic \/ d.panic]

\* sqlx.SelectContext(ctx, db, &results, ...): appends every row it scans to results
\* and stops at the first error.
SelectContext(q, results) ==
    IF q.fail THEN [seq |-> results, err |-> "query"]
    ELSE LET bad == {k \in 1..Len(q.rows) : q.rows[k] = Unscannable}
         IN IF bad = {}
            THEN [seq |-> [nil |-> results.nil /\ q.rows = <<>>,
                           items |-> results.items \o q.rows],
                  err |-> IF q.fault THEN "fault" ELSE "nil"]
            ELSE LET k == CHOOSE b \in bad : \A b2 \in bad : b <= b2
                 IN [seq |-> [nil |-> results.nil /\ k = 1,
                              items |-> results.items \o SubSeq(q.rows, 1, k - 1)],
                     err |-> "scan"]

\* results = make([]T, 0); return results, sqlx.SelectContext(ctx, db, &results, ...)
\* (the returned slice is read after SelectContext has filled it, as TestList shows)
ListResult(q) == SelectContext(q, EmptySeq)

\* What a call leaves in out.
Called(name) == [NoOut EXCEPT !.op = name, !.before = cursor]

\* Iterate(ctx, db, query): rows, err := db.QueryxContext(...); &Iterator{err, rows}
Iterate ==
    /\ ~iter.made
    /\ iter' = [made |-> TRUE, err |-> IF query.fail THEN "query" ELSE "nil",
                hasRows |-> ~query.fail]
    /\ cursor' = NoCursor
    /\ out' = [Called("Iterate") EXCEPT !.exec = TRUE]
    /\ UNCHANGED <<query, scanFailed>>
    /\ UNCHANGED cacheVars

\* List(ctx, db, query)
List ==
    /\ ~out.panic
    /\ out' = [Called("List") EXCEPT !.seq = ListResult(query).seq,
                                     !.err = ListResult(query).err,
                                     !.exec = TRUE]
    /\ UNCHANGED <<query, iter, cursor, scanFailed>>
    /\ UNCHANGED cacheVars

\* it.Next()
IterNext ==
    /\ iter.made /\ ~out.panic
    /\ LET r == ItNext(iter, query, cursor)
       IN /\ cursor' = r.cursor
          /\ out' = [Called("Next") EXCEPT !.ok = r.ok, !.touched = r.touched,
                                           !.panic = r.panic]
    /\ UNCHANGED <<query, iter, scanFailed>>
    /\ UNCHANGED cacheVars

\* it.Get()
IterGet ==
    /\ iter.made /\ ~out.panic
    /\ LET r == ItGet(iter, query, cursor)
       IN /\ out' = [Called("Get") EXCEPT !.val = r.val, !.err = r.err, !.panic = r.panic]
          /\ scanFailed' = (scanFailed \/ (~r.panic /\ r.err = "scan"))
    /\ UNCHANGED <<query, iter, cursor>>
    /\ UNCHANGED cacheVars

\* it.Err()
IterErr ==
    /\ iter.made /\ ~out.panic
    /\ out' = [Called("Err") EXCEPT !.err = ItErr(iter, cursor)]
    /\ UNCHANGED <<query, iter, cursor, scanFailed>>
    /\ UNCHANGED cacheVars

\* it.Close()
IterClose ==
    /\ iter.made /\ ~out.panic
    /\ LET r == ItClose(iter, cursor)
       IN /\ cursor' = r.cursor
          /\ out' = [Called("Close") EXCEPT !.panic = r.panic]
    /\ UNCHANGED <<query, iter, scanFailed>>
    /\ UNCHANGED cacheVars

\* it.Collect()
IterCollect ==
    /\ iter.made /\ ~out.panic
    /\ LET r == ItCollect(iter, query, cursor)
       IN /\ cursor' = r.cursor
          /\ out' = IF r.panic THEN [Called("Collect") EXCEPT !.panic = TRUE]
                    ELSE [Called("Collect") EXCEPT !.seq = r.seq, !.err = r.err]
          /\ scanFailed' = (scanFailed \/ r.scan)
    /\ UNCHANGED <<query, iter>>
    /\ UNCHANGED cacheVars

\* ---- Get and NamedStatement ----
\* sqlx.GetContext(ctx, db, &result, ...): scans the first row into result.
GetContext(q) ==
    IF q.fail THEN [val |-> Zero, err |-> "query"]
    ELSE IF q.rows = <<>> THEN [val |-> Zero, err |-> IF q.fault THEN "fault" ELSE "norows"]
    ELSE IF q.rows[1] = Unscannable THEN [val |-> Zero, err |-> "scan"]
    ELSE [val |-> q.rows[1], err |-> "nil"]

\* var result T; return result, sqlx.GetContext(ctx, db, &result, ...)
GetResult(q) == GetContext(q)

\* A List that runs the query before it looks at the error of sqlx.Named.
NamedList_QueryFirst(q, bound) ==
    IF ~bound THEN [seq |-> NilSeq, err |-> "prepare", exec |-> TRUE]
    ELSE [seq |-> ListResult(q).seq, err |-> ListResult(q).err, exec |-> TRUE]

\* NamedStatement.List: query, args, err := sqlx.Named(...);
\* if err != nil { return nil, fmt.Errorf("prepare SQL: %w", err) }; return List(...)
NamedList(q, bound) ==
    IF ~bound THEN [seq |-> NilSeq, err |-> "prepare", exec |-> FALSE]
    ELSE [seq |-> ListResult(q).seq, err |-> ListResult(q).err, exec |-> TRUE]

\* NamedStatement.Get: on a binding error return def, fmt.Errorf(...); else Get(...)
NamedGet(q, bound) ==
    IF ~bound THEN [val |-> Zero, err |-> "prepare", exec |-> FALSE]
    ELSE [val |-> GetResult(q).val, err |-> GetResult(q).err, exec |-> TRUE]

\* NamedStatement.Iterate: on a binding error &Iterator[T]{err: fmt.Errorf(...)};
\* else Iterate(...)
NamedIterate(q, bound) ==
    IF ~bound THEN [it |-> [made |-> TRUE, err |-> "prepare", hasRows |-> FALSE],
                    exec |-> FALSE]
    ELSE [it |-> [made |-> TRUE, err |-> IF q.fail THEN "query" ELSE "nil",
                  hasRows |-> ~q.fail],
          exec |-> TRUE]

\* st.List(ctx, db, arg): sqlx.Named binds arg to the statement, or fails
NamedStatementList ==
    /\ ~out.panic
    /\ \E bound \in BOOLEAN :
         LET r == NamedList(query, bound)
         IN out' = [Called("NamedList") EXCEPT !.seq = r.seq, !.err = r.err,
                                               !.exec = r.exec, !.bindFailed = ~bound]
    /\ UNCHANGED <<query, iter, cursor, scanFailed>>
    /\ UNCHANGED cacheVars

\* st.Get(ctx, db, arg)
NamedStatementGet ==
    /\ ~out.panic
    /\ \E bound \in BOOLEAN :
         LET r == NamedGet(query, bound)
         IN out' = [Called("NamedGet") EXCEPT !.val = r.val, !.err = r.err,
                                              !.exec = r.exec, !.bindFailed = ~bound]
    /\ UNCHANGED <<query, iter, cursor, scanFailed>>
    /\ UNCHANGED cacheVars

\* st.Iterate(ctx, db, arg)
NamedStatementIterate ==
    /\ ~iter.made
    /\ \E bound \in BOOLEAN :
         LET r == NamedIterate(query, bound)
         IN /\ iter' = r.it
            /\ out' = [Called("NamedIterate") EXCEPT !.exec = r.exec,
                                                     !.bindFailed = ~bound]
    /\ cursor' = NoCursor
    /\ UNCHANGED <<query, scanFailed>>
    /\ UNCHANGED cacheVars

\* A program that runs one query, with List or through one Iterator.
IterInit ==
    /\ NewCache
    /\ query \in Queries
    /\ iter = NoIter
    /\ cursor = NoCursor
    /\ out = NoOut
    /\ scanFailed = FALSE

IterStep ==
    \/ Iterate
    \/ List
    \/ IterNext
    \/ IterGet
    \/ IterErr
    \/ IterClose
    \/ IterCollect
    \/ NamedStatementList
    \/ NamedStatementGet
    \/ NamedStatementIterate

IterSpec == IterInit /\ [][IterStep]_vars

\* ---- claims ----
\* Goroutine t is back from a call of o.
Done(t, o) == pc[t] = "idle" /\ ret[t].done /\ op[t] = o

\* The factory invocation made by the call of t failed.
OwnFailed(t) == hist[t].invoked \cap failed # {}

\* C1: on a fresh cache, with only Get calls and no factory failure, the factory is
\* invoked at most once, and every Get that has returned returned the value of that
\* one invocation, with no error.
C1_Coalesce ==
    (~anyInvRef /\ failed = {}) =>
        /\ calls <= 1
        /\ \A t \in Threads : Done(t, "Get") =>
              /\ calls = 1
              /\ ret[t] = Returned(1, NoErr)
              /\ valid /\ data = 1

\* C1 happens: every goroutine ran Get on the fresh cache at once, one of them lost
\* the race for the exclusive lock, and all are back after one invocation.
C1_Witness ==
    /\ ~anyInvRef /\ failed = {} /\ calls = 1
    /\ \A t \in Threads : Done(t, "Get") /\ ~hist[t].startValid
    /\ \E t \in Threads : hist[t].invoked = {}

\* C2: a Get that starts after a Get has returned a value, and during which no other
\* call changes the cache, finds the cache filled, invokes nothing and returns the
\* stored value.
C2_StaleUntilInvalidated ==
    \A t \in Threads :
        (Done(t, "Get") /\ hist[t].prev.out = "GetOk" /\ hist[t].undisturbed) =>
            /\ hist[t].startValid
            /\ hist[t].invoked = {}
            /\ ret[t] = Returned(hist[t].startData, NoErr)
            /\ valid /\ data = hist[t].startData

\* C2 happens: a Get filled the cache, a later Get returned the stored value.
C2_Witness ==
    \E t \in Threads :
        /\ Done(t, "Get") /\ hist[t].prev.out = "GetOk" /\ hist[t].undisturbed
        /\ ret[t].data = 1 /\ calls = 1 /\ started >= 2

\* C3: a Get that starts after an Invalidate has returned never returns (without error)
\* a value of an invocation started before that Invalidate took effect; when the
\* Invalidate was the latest call to return and no other call changes the cache
\* meanwhile, the Get finds the cache empty, invokes the factory exactly once and, if
\* the invocation succeeds, returns its value.
C3_GetAfterInvalidate ==
    \A t \in Threads : Done(t, "Get") =>
        /\ ret[t].err = NoErr => ret[t].data > hist[t].floor
        /\ (hist[t].prev.out = "Invalidate" /\ hist[t].undisturbed) =>
              /\ ~hist[t].startValid
              /\ Cardinality(hist[t].invoked) = 1
              /\ ret[t].err = NoErr => ret[t].data \in hist[t].invoked

\* C3 happens: the cache held a value, Invalidate returned, then a Get refilled it.
C3_Witness ==
    \E t \in Threads :
        /\ Done(t, "Get") /\ hist[t].prev.out = "Invalidate" /\ hist[t].undisturbed
        /\ hist[t].startData # Zero /\ hist[t].floor > 0
        /\ ret[t].err = NoErr /\ ret[t].data > hist[t].startData

\* C4: every Refresh invokes the factory exactly once, whether the cache was filled or
\* not; right after a successful Refresh the cache is filled with the value of that
\* invocation; a Get that starts after it, and during which no other call changes the
\* cache, returns that value and invokes nothing.
C4_RefreshReloads ==
    /\ \A t \in Threads : Done(t, "Refresh") => Cardinality(hist[t].invoked) = 1
    /\ \A t \in Threads : (Done(t, "Refresh") /\ prev = [out |-> "RefreshOk", by |-> t]) =>
          valid /\ data \in hist[t].invoked /\ ret[t].err = NoErr
    /\ \A t \in Threads :
          (Done(t, "Get") /\ hist[t].prev.out = "RefreshOk" /\ hist[t].undisturbed) =>
              /\ hist[t].startValid
              /\ hist[t].invoked = {}
              /\ ret[t] = Returned(hist[t].startData, NoErr)

\* C4 happens: Get filled the cache (V1), Refresh replaced it (V2), Get returned V2.
C4_Witness ==
    \E t \in Threads :
        /\ Done(t, "Get") /\ hist[t].prev.out = "RefreshOk" /\ hist[t].undisturbed
        /\ ret[t].data = 2 /\ calls = 2 /\ failed = {}

\* C5: a Refresh whose invocation fails returns that error and, when no other call
\* changed the cache meanwhile, leaves ct.valid and ct.data as they were when it
\* started; a Get on a filled cache after it returns the stored value and no error.
C5_RefreshFailureKeeps ==
    /\ \A t \in Threads : Done(t, "Refresh") =>
          /\ OwnFailed(t) <=> ret[t].err # NoErr
          /\ ret[t].err # NoErr => ret[t].err \in hist[t].invoked
          /\ (ret[t].err # NoErr /\ hist[t].undisturbed) =>
                valid = hist[t].startValid /\ data = hist[t].startData
    /\ \A t \in Threads :
          (Done(t, "Get") /\ hist[t].prev.out = "RefreshErr" /\ hist[t].undisturbed
              /\ hist[t].startValid) =>
                ret[t] = Returned(hist[t].startData, NoErr) /\ hist[t].invoked = {}

\* C5 happens: the cache was filled, a Refresh failed, a Get still returned the value.
C5_Witness ==
    \E t, u \in Threads :
        /\ Done(t, "Get") /\ hist[t].prev = [out |-> "RefreshErr", by |-> u]
        /\ hist[t].undisturbed /\ hist[t].startValid
        /\ ret[t] = Returned(1, NoErr) /\ failed = {2}

\* C6: a Get whose invocation fails returns that error and, when no other call changed
\* the cache meanwhile, leaves ct.valid false and ct.data as it was; a Get that starts
\* after it, undisturbed, finds the cache empty and invokes the factory again.
C6_GetFailureKeeps ==
    /\ \A t \in Threads : Done(t, "Get") =>
          /\ OwnFailed(t) <=> ret[t].err # NoErr
          /\ ret[t].err # NoErr => ret[t].err \in hist[t].invoked
          /\ (ret[t].err # NoErr /\ hist[t].undisturbed) =>
                ~valid /\ ~hist[t].startValid /\ data = hist[t].startData
    /\ \A t \in Threads :
          (Done(t, "Get") /\ hist[t].prev.out = "GetErr" /\ hist[t].undisturbed) =>
              ~hist[t].startValid /\ Cardinality(hist[t].invoked) = 1

\* C6 happens: a Get failed, the next Get invoked the factory again.
C6_Witness ==
    \E t \in Threads :
        /\ Done(t, "Get") /\ hist[t].prev.out = "GetErr" /\ hist[t].undisturbed
        /\ 1 \in failed /\ hist[t].invoked = {2}

\* C7: the value a Get returns together with an error is never a value stored earlier.
C7_StaleNotExposed ==
    \A t \in Threads : (Done(t, "Get") /\ ret[t].err # NoErr) => ret[t].data = Zero

C9_LosersShareFailure ==
    \A t \in Threads :
        (Done(t, "Get") /\ hist[t].blockedFail # NoErr) =>
            ret[t].err = hist[t].blockedFail /\ hist[t].invoked = {}

\* C9 (amended): a Get that waited at Lock behind a failed fill never returns that
\* failure: it invokes the factory itself and returns the outcome of its own
\* invocation, unless a later fill succeeded first, whose value it then returns.
C9_LosersRetry ==
    \A t \in Threads :
        (Done(t, "Get") /\ hist[t].blockedFail # NoErr) =>
            /\ ret[t].err # hist[t].blockedFail
            /\ \/ /\ Cardinality(hist[t].invoked) = 1
                  /\ \A n \in hist[t].invoked :
                        /\ n > hist[t].blockedFail
                        /\ ret[t] = Returned(n, NoErr) \/ ret[t].err = n
               \/ /\ hist[t].invoked = {}
                  /\ ret[t].err = NoErr
                  /\ ret[t].data > hist[t].blockedFail

\* C9 happens: two Get calls raced on the empty cache, the fill failed, and the
\* caller that waited invoked the factory again.
C9_Witness ==
    \E t \in Threads :
        /\ Done(t, "Get") /\ hist[t].blockedFail = 1 /\ ~anyInvRef
        /\ hist[t].invoked = {2} /\ calls = 2

\* C10: at most one factory invocation executes at any moment.
C10_OneFactoryAtATime == Cardinality(InFactory) <= 1

\* C10 happens: an invocation executes while a Get and a Refresh wait for the lock.
C10_Witness ==
    \E t, u \in Threads :
        /\ pc[t] \in {"get_factory", "ref_factory"}
        /\ pc[u] \in {"get_lock", "ref_lock"}

\* C11: a call of Get or Refresh invokes the factory at most once, and a call whose
\* invocation failed made no other invocation and returned the error of that
\* invocation, unchanged.
C11_OneInvocationErrorUnchanged ==
    \A t \in Threads :
        /\ Cardinality(hist[t].invoked) <= 1
        /\ ((Done(t, "Get") \/ Done(t, "Refresh")) /\ OwnFailed(t)) =>
              hist[t].invoked = {ret[t].err}

\* C11 happens: a Get and a Refresh have both returned the error of their invocation.
C11_Witness ==
    \E t, u \in Threads :
        /\ Done(t, "Get") /\ OwnFailed(t)
        /\ Done(u, "Refresh") /\ OwnFailed(u)

\* Goroutines whose Refresh still waits for the lock.
RefreshWaiting == {t \in Threads : pc[t] = "ref_lock"}

\* C12: every Refresh call that got the lock made exactly one invocation of its own:
\* the invocations made by Refresh are as many as the Refresh calls past the lock, and
\* no invocation belongs to two calls.
C12_RefreshNeverCoalesced ==
    /\ count.byRefresh = count.Refresh - Cardinality(RefreshWaiting)
    /\ calls >= count.byRefresh
    /\ \A t \in Threads :
          (op[t] = "Refresh" /\ t \notin RefreshWaiting) => Cardinality(hist[t].invoked) = 1
    /\ \A t, u \in Threads : t # u => hist[t].invoked \cap hist[u].invoked = {}

\* C12 happens: two Refresh calls ran at the same time, the second on a cache the
\* first had just filled, and both invoked the factory.
C12_Witness ==
    \E t, u \in Threads :
        /\ t # u /\ Done(t, "Refresh") /\ Done(u, "Refresh")
        /\ ~hist[u].undisturbed /\ ~hist[u].startValid
        /\ count.byRefresh = 2 /\ failed = {}

\* C17: a new cache is empty and no invocation has been made; there are never more
\* invocations than calls of Get and Refresh started.
C17_CreationInvokesNothing ==
    /\ started = 0 => (calls = 0 /\ ~valid /\ data = Zero /\ InFactory = {})
    /\ calls <= count.Get + count.Refresh

\* C17 happens: the first invocation runs inside the first call.
C17_Witness == started = 1 /\ calls = 1 /\ InFactory # {}

\* The invocations that returned a value.
Succeeded ==
    {n \in 1..calls : n \notin failed /\ \A t \in InFactory : n \notin hist[t].invoked}

\* The value of the latest of them (the zero value when there is none).
LastOk == IF Succeeded = {} THEN Zero
          ELSE CHOOSE n \in Succeeded : \A m \in Succeeded : m <= n

\* C18: ct.data always is the value of the latest successful invocation (nothing else
\* writes it), and a filled cache holds such a value.
C18_DataIsLatestSuccess ==
    /\ data = LastOk
    /\ (valid /\ lock.writer = 0) => (data = LastOk /\ data # Zero)

\* C18 happens: the cache is filled by the second invocation; a third one failed.
C18_Witness == valid /\ lock.writer = 0 /\ data = 2 /\ failed = {3}

\* C19: an Invalidate invokes nothing and, when no other call changed the cache
\* meanwhile, leaves ct.valid false and ct.data as it was when the call started.
C19_InvalidateOnlyFlag ==
    \A t \in Threads : Done(t, "Invalidate") =>
        /\ hist[t].invoked = {}
        /\ hist[t].undisturbed => (~valid /\ data = hist[t].startData)

\* C19 happens: Invalidate ran on a filled cache.
C19_Witness ==
    \E t \in Threads :
        /\ Done(t, "Invalidate") /\ hist[t].undisturbed
        /\ hist[t].startValid /\ hist[t].startData # Zero

\* ---- the Iterator and List (IterSpec) ----
\* The rows after position p that cannot be scanned.
BadAfter(p) == {k \in (p + 1)..Len(query.rows) : query.rows[k] = Unscannable}

\* The query yields rows that all scan, and the cursor ends normally.
CleanQuery == ~query.fail /\ ~query.fault /\ BadAfter(0) = {}

\* C13 as stated: once an error is recorded on the Iterator, from the initiation of
\* the query or from a failed scan in Get, a later Next returns false and does not
\* touch the cursor.
C13_ErrorStopsNext ==
    (out.op = "Next" /\ (iter.err # "nil" \/ scanFailed)) =>
        (~out.ok /\ ~out.touched)

\* C13 amended: once an initiation error is recorded, a later Next returns false and
\* does not touch the cursor; a failed scan is not recorded (it.err stays nil), and a
\* later Next asks the cursor.
C13_InitErrorStopsNext ==
    /\ (out.op = "Next" /\ iter.err # "nil") =>
           (~out.ok /\ ~out.touched /\ ~out.panic /\ cursor = out.before)
    /\ scanFailed => iter.err = "nil"
    /\ (out.op = "Next" /\ iter.err = "nil") => out.touched

\* C13 happens: Next was called on an Iterator whose query failed at initiation.
C13_Witness == out.op = "Next" /\ iter.err = "query" /\ ~out.ok

\* C14: when a row at or after the cursor's position cannot be scanned, Collect stops
\* at the first such row, returns the nil sequence and the scan error, and the cursor
\* has been released exactly once.
C14_ScanErrorStopsCollect ==
    (out.op = "Collect" /\ iter.hasRows /\ ~out.before.closed
        /\ BadAfter(out.before.pos) # {}) =>
        /\ ~out.panic
        /\ out.err = "scan"
        /\ out.seq = NilSeq
        /\ \A k \in BadAfter(out.before.pos) : cursor.pos <= k
        /\ cursor.pos \in BadAfter(out.before.pos)
        /\ cursor.closed
        /\ cursor.released = 1

\* C14 happens: Collect has failed scanning the third row, after two rows that scan.
C14_Witness ==
    /\ out.op = "Collect" /\ out.err = "scan" /\ out.before = NoCursor
    /\ cursor.pos = 3 /\ cursor.released = 1

\* C15: for a query that matches zero rows, List and Collect each return a non-nil
\* empty sequence and no error.
C15_ZeroRowsEmptyNotNil ==
    (CleanQuery /\ query.rows = <<>>) =>
        /\ out.op = "List" => (out.seq = EmptySeq /\ out.err = "nil")
        /\ out.op = "Collect" => (~out.panic /\ out.seq = EmptySeq /\ out.err = "nil")

\* C16: on an open cursor whose remaining rows all scan, Collect returns the values
\* of the remaining rows in cursor order and no error, and leaves the cursor released;
\* from a fresh cursor these are the n values that List returns for the query.
C16_CollectAllInOrder ==
    (out.op = "Collect" /\ iter.hasRows /\ CleanQuery /\ ~out.before.closed) =>
        /\ ~out.panic
        /\ out.err = "nil"
        /\ out.seq.items = SubSeq(query.rows, out.before.pos + 1, Len(query.rows))
        /\ out.before.pos = 0 =>
              /\ Len(out.seq.items) = Len(query.rows)
              /\ ListResult(query).err = "nil"
              /\ out.seq.items = ListResult(query).seq.items
        /\ cursor.closed
        /\ cursor.released = 1

\* C16 happens: Collect has returned three values, not all the same, from a fresh cursor.
C16_Witness ==
    /\ out.op = "Collect" /\ out.before = NoCursor /\ CleanQuery
    /\ Len(out.seq.items) = MaxRows /\ out.seq.items[1] # out.seq.items[2]

\* Goroutine t holds no part of ct.lock.
HoldsNothing(t) == lock.writer # t /\ t \notin lock.readers

\* C20: a goroutine that is not inside a call holds no lock, whatever the outcome of
\* its call was, and under fair scheduling every call that was started returns.
C20_EveryCallReturns ==
    /\ [](\A t \in Threads : pc[t] = "idle" => HoldsNothing(t))
    /\ \A t \in Threads : (pc[t] # "idle") ~> (pc[t] = "idle")

\* C20 happens: a Get that waited for the lock behind a failed fill has returned, and
\* the lock is free.
C20_Witness ==
    \E t \in Threads :
        /\ Done(t, "Get") /\ hist[t].blockedFail # NoErr
        /\ lock = NoLock /\ \A u \in Threads : pc[u] = "idle"

\* C21: a Get that returns no error returns a value that a successful factory
\* invocation produced and that was stored, with valid set, at some moment of the call;
\* it is never the zero value, nor a value paired with the flag of another fill.
C21_GetReturnsStoredValue ==
    \A t \in Threads :
        (Done(t, "Get") /\ ret[t].err = NoErr) =>
            /\ ret[t].data # Zero
            /\ ret[t].data \in (1..calls) \ failed
            /\ ret[t].data \in hist[t].seen

\* C21 happens: a Get that started on a filled cache has returned the value a
\* concurrent Refresh stored during the call.
C21_Witness ==
    \E t \in Threads :
        /\ Done(t, "Get") /\ ret[t].err = NoErr
        /\ hist[t].invoked = {} /\ hist[t].startValid
        /\ ret[t].data # hist[t].startData
        /\ hist[t].seen = {hist[t].startData, ret[t].data}

\* C22: an Iterator that failed at creation holds no cursor; no operation on it
\* fails by using the missing cursor, and Collect returns the nil sequence and the
\* initiation error.
C22_FailedIteratorIsSafe ==
    (iter.made /\ ~iter.hasRows) =>
        /\ ~out.panic
        /\ out.op = "Collect" => (out.seq = NilSeq /\ out.err = iter.err)

\* C23: whenever Collect returns an error, the sequence it returns is nil.
C23_NoPartialWithError ==
    (out.op = "Collect" /\ ~out.panic /\ out.err # "nil") => out.seq = NilSeq

\* C24: when binding the named query fails, List, Get and Iterate of a NamedStatement
\* do not call the executor and return the binding error (Iterate records it as the
\* error of the Iterator); when binding succeeds the executor is called.
C24_BindingErrorBeforeExecutor ==
    /\ out.op \in {"NamedList", "NamedGet", "NamedIterate"} => (out.exec <=> ~out.bindFailed)
    /\ (out.op = "NamedList" /\ out.bindFailed) => (out.err = "prepare" /\ out.seq = NilSeq)
    /\ (out.op = "NamedGet" /\ out.bindFailed) => (out.err = "prepare" /\ out.val = Zero)
    /\ (out.op = "NamedIterate" /\ out.bindFailed) =>
           (iter.err = "prepare" /\ ~iter.hasRows /\ cursor = NoCursor)

\* C24 happens: binding failed for a query the database would answer with rows.
C24_Witness ==
    /\ out.op = "NamedList" /\ out.bindFailed
    /\ ~query.fail /\ query.rows # <<>>

====
